---- MODULE Spec2Model ----
(***************************************************************************)
(* The two browser smoke-check scripts of ColdUML, verify_app.py and       *)
(* verify_fix.py.  One behaviour of the model is one call of run() of one  *)
(* of the two scripts.  Each action is one statement of run() (a print     *)
(* that precedes a browser call is part of the action of that call); every *)
(* browser call either returns or raises, and the callbacks registered     *)
(* with page.on fire while a browser call is blocked.                      *)
(***************************************************************************)
EXTENDS Integers, Sequences, FiniteSets, TLC

VARIABLES
    script,        \* "app" (verify_app.py) or "fix" (verify_fix.py)
    pc,            \* the statement of run() that executes next
    openSessions,  \* number of browsers launched and not closed
    closeCalls,    \* number of browser.close() calls made
    listeners,     \* the events a callback was registered for with page.on
    out,           \* the lines printed to standard output, in order
    files,         \* the screenshot files written by this run
    log,           \* the browser calls made, in order: <<call, returned normally>>
    caught,        \* the exception bound to e by "except Exception as e"
    raised,        \* the exception that left run(): <<call, message>>, or NoExc
    content,       \* the markup page.content() returned
    clock,         \* milliseconds spent in the two waits
    consoleCount   \* callbacks fired so far

vars == <<script, pc, openSessions, closeCalls, listeners, out, files, log,
          caught, raised, content, clock, consoleCount>>

----------------------------------------------------------------------------
(* Bounds *)

MaxMsg == 2        \* distinct exception messages besides the timeout message
MaxFrags == 2      \* a page is the concatenation of at most MaxFrags fragments
MaxTicks == 7      \* the marker appears at one of 0..MaxTicks settle delays
MaxConsole == 1    \* callbacks fired in one run

----------------------------------------------------------------------------
(* Literals of the scripts *)

WaitTimeout == 30000
SettleDelay == 5000
URL == "http://localhost:3000"

AppMainShot == "verification_debug.png"
AppErrorShot == "error_state_debug.png"
FixMainShot == "verification.png"

classDiagram == <<"c","l","a","s","s","D","i","a","g","r","a","m">>
Animal == <<"A","n","i","m","a","l">>

NoExc == <<>>
TimeoutMsg == <<"Timeout", WaitTimeout>>
Msgs == {<<"Err", i>> : i \in 1..MaxMsg}

\* print(...): one printed line, a fixed text and the value formatted into it
Line(text, arg) == <<text, arg>>

----------------------------------------------------------------------------
(* Page content and the "in" operator of the content checks *)

Fragments == {classDiagram, Animal,
              <<"c","l","a","s","s">>, <<"D","i","a","g","r","a","m">>,
              <<"A","n","i","m","a">>, <<"l">>,
              <<"a","n","i","m","a","l">>}

RECURSIVE Flatten(_)
Flatten(ss) == IF ss = <<>> THEN <<>> ELSE Head(ss) \o Flatten(Tail(ss))

Pages == {Flatten(fs) : fs \in UNION {[1..n -> Fragments] : n \in 0..MaxFrags}}

\* Contains that stops one position early
ContainsShort(haystack, needle) ==
    \E i \in 1..(Len(haystack) - Len(needle)) :
        SubSeq(haystack, i, i + Len(needle) - 1) = needle

\* needle in haystack, for two Python strings
Contains(haystack, needle) ==
    \E i \in 1..(Len(haystack) - Len(needle) + 1) :
        SubSeq(haystack, i, i + Len(needle) - 1) = needle

----------------------------------------------------------------------------
(* Callbacks *)

ConsoleLine == Line("Console: ", <<"console">>)
PageErrorLine == Line("PageError: ", <<"pageerror">>)

EventOf(line) == line[2][1]

Events == {ConsoleLine, PageErrorLine}

\* the sequences of page events that may arrive during one browser call
Arrivals == UNION {[1..n -> Events] : n \in 0..(MaxConsole - consoleCount)}

\* the lines the registered callbacks print for the events evs
Deliver(evs) == SelectSeq(evs, LAMBDA ev : EventOf(ev) \in listeners)

Call(op, ok) == log' = Append(log, <<op, ok>>)

Init ==
    /\ script \in {"app", "fix"}
    /\ pc = "launch"
    /\ openSessions = 0
    /\ closeCalls = 0
    /\ listeners = {}
    /\ out = <<>>
    /\ files = {}
    /\ log = <<>>
    /\ caught = NoExc
    /\ raised = NoExc
    /\ content = <<>>
    /\ clock = 0
    /\ consoleCount = 0

----------------------------------------------------------------------------
(* verify_app.py *)

AppLaunch ==
    /\ script = "app" /\ pc = "launch"
    /\ \/ /\ Call("launch", TRUE)
          /\ openSessions' = openSessions + 1
          /\ pc' = "new_page"
          /\ UNCHANGED raised
       \/ \E m \in Msgs :
          /\ Call("launch", FALSE)
          /\ raised' = <<"launch", m>>
          /\ pc' = "exit"
          /\ UNCHANGED openSessions
    /\ UNCHANGED <<script, closeCalls, listeners, out, files, caught, content,
                   clock, consoleCount>>

AppNewPage ==
    /\ script = "app" /\ pc = "new_page"
    /\ \/ /\ Call("new_page", TRUE)
          /\ pc' = "on_console"
          /\ UNCHANGED raised
       \/ \E m \in Msgs :
          /\ Call("new_page", FALSE)
          /\ raised' = <<"new_page", m>>
          /\ pc' = "exit"
    /\ UNCHANGED <<script, openSessions, closeCalls, listeners, out, files,
                   caught, content, clock, consoleCount>>

AppOnConsole ==
    /\ script = "app" /\ pc = "on_console"
    /\ \/ /\ Call("on", TRUE)
          /\ listeners' = listeners \cup {"console"}
          /\ pc' = "on_pageerror"
          /\ UNCHANGED raised
       \/ \E m \in Msgs :
          /\ Call("on", FALSE)
          /\ raised' = <<"on", m>>
          /\ pc' = "exit"
          /\ UNCHANGED listeners
    /\ UNCHANGED <<script, openSessions, closeCalls, out, files, caught,
                   content, clock, consoleCount>>

AppOnPageError ==
    /\ script = "app" /\ pc = "on_pageerror"
    /\ \/ /\ Call("on", TRUE)
          /\ listeners' = listeners \cup {"pageerror"}
          /\ pc' = "goto"
          /\ UNCHANGED raised
       \/ \E m \in Msgs :
          /\ Call("on", FALSE)
          /\ raised' = <<"on", m>>
          /\ pc' = "exit"
          /\ UNCHANGED listeners
    /\ UNCHANGED <<script, openSessions, closeCalls, out, files, caught,
                   content, clock, consoleCount>>

AppGoto ==
    /\ script = "app" /\ pc = "goto"
    /\ \E evs \in Arrivals :
       /\ out' = out \o <<Line("Navigating to ", <<URL>>)>> \o Deliver(evs)
       /\ consoleCount' = consoleCount + Len(evs)
    /\ \/ /\ Call("goto", TRUE)
          /\ pc' = "wait_for_selector"
          /\ UNCHANGED caught
       \/ \E m \in Msgs :
          /\ Call("goto", FALSE)
          /\ caught' = m
          /\ pc' = "except"
    /\ UNCHANGED <<script, openSessions, closeCalls, listeners, files, raised,
                   content, clock>>

AppWaitForSelector ==
    /\ script = "app" /\ pc = "wait_for_selector"
    /\ \E evs \in Arrivals :
       /\ out' = out \o <<Line("Waiting for editor to load...", <<>>)>>
                     \o Deliver(evs)
       /\ consoleCount' = consoleCount + Len(evs)
    /\ \/ \E k \in 0..MaxTicks :
          /\ k * SettleDelay <= WaitTimeout
          /\ Call("wait_for_selector", TRUE)
          /\ clock' = clock + k * SettleDelay
          /\ pc' = "wait_for_timeout"
          /\ UNCHANGED caught
       \/ \E k \in 0..MaxTicks :
          /\ k * SettleDelay >= WaitTimeout
          /\ Call("wait_for_selector", FALSE)
          /\ clock' = clock + WaitTimeout
          /\ caught' = TimeoutMsg
          /\ pc' = "except"
       \/ \E m \in Msgs :
          /\ Call("wait_for_selector", FALSE)
          /\ caught' = m
          /\ pc' = "except"
          /\ UNCHANGED clock
    /\ UNCHANGED <<script, openSessions, closeCalls, listeners, files, raised,
                   content>>

AppWaitForTimeout ==
    /\ script = "app" /\ pc = "wait_for_timeout"
    /\ \E evs \in Arrivals :
       /\ out' = out \o Deliver(evs)
       /\ consoleCount' = consoleCount + Len(evs)
    /\ \/ /\ Call("wait_for_timeout", TRUE)
          /\ clock' = clock + SettleDelay
          /\ pc' = "screenshot"
          /\ UNCHANGED caught
       \/ \E m \in Msgs :
          /\ Call("wait_for_timeout", FALSE)
          /\ caught' = m
          /\ pc' = "except"
          /\ UNCHANGED clock
    /\ UNCHANGED <<script, openSessions, closeCalls, listeners, files, raised,
                   content>>

\* AppScreenshot writing to the error path
AppScreenshotWrongPath ==
    /\ script = "app" /\ pc = "screenshot"
    /\ \E evs \in Arrivals :
       /\ consoleCount' = consoleCount + Len(evs)
       /\ \/ /\ Call("screenshot", TRUE)
             /\ files' = files \cup {AppErrorShot}
             /\ out' = out \o <<Line("Taking screenshot...", <<>>)>>
                           \o Deliver(evs)
                           \o <<Line("Screenshot saved to ", <<AppMainShot>>)>>
             /\ pc' = "close"
             /\ UNCHANGED caught
          \/ \E m \in Msgs :
             /\ Call("screenshot", FALSE)
             /\ out' = out \o <<Line("Taking screenshot...", <<>>)>>
                           \o Deliver(evs)
             /\ caught' = m
             /\ pc' = "except"
             /\ UNCHANGED files
    /\ UNCHANGED <<script, openSessions, closeCalls, listeners, raised,
                   content, clock>>

\* AppScreenshot with the fallback screenshot taken in every run
AppScreenshotThenErrorShot ==
    /\ script = "app" /\ pc = "screenshot"
    /\ \E evs \in Arrivals :
       /\ consoleCount' = consoleCount + Len(evs)
       /\ \/ /\ Call("screenshot", TRUE)
             /\ files' = files \cup {AppMainShot}
             /\ out' = out \o <<Line("Taking screenshot...", <<>>)>>
                           \o Deliver(evs)
                           \o <<Line("Screenshot saved to ", <<AppMainShot>>)>>
             /\ pc' = "error_screenshot"
             /\ UNCHANGED caught
          \/ \E m \in Msgs :
             /\ Call("screenshot", FALSE)
             /\ out' = out \o <<Line("Taking screenshot...", <<>>)>>
                           \o Deliver(evs)
             /\ caught' = m
             /\ pc' = "except"
             /\ UNCHANGED files
    /\ UNCHANGED <<script, openSessions, closeCalls, listeners, raised,
                   content, clock>>

\* a screenshot call that raises is taken to have written no file
AppScreenshot ==
    /\ script = "app" /\ pc = "screenshot"
    /\ \E evs \in Arrivals :
       /\ consoleCount' = consoleCount + Len(evs)
       /\ \/ /\ Call("screenshot", TRUE)
             /\ files' = files \cup {AppMainShot}
             /\ out' = out \o <<Line("Taking screenshot...", <<>>)>>
                           \o Deliver(evs)
                           \o <<Line("Screenshot saved to ", <<AppMainShot>>)>>
             /\ pc' = "close"
             /\ UNCHANGED caught
          \/ \E m \in Msgs :
             /\ Call("screenshot", FALSE)
             /\ out' = out \o <<Line("Taking screenshot...", <<>>)>>
                           \o Deliver(evs)
             /\ caught' = m
             /\ pc' = "except"
             /\ UNCHANGED files
    /\ UNCHANGED <<script, openSessions, closeCalls, listeners, raised,
                   content, clock>>

\* AppExcept without the fallback screenshot
AppExceptNoShot ==
    /\ script = "app" /\ pc = "except"
    /\ out' = Append(out, Line("Error: ", caught))
    /\ pc' = "close"
    /\ UNCHANGED <<script, openSessions, closeCalls, listeners, files, log,
                   caught, raised, content, clock, consoleCount>>

AppExcept ==
    /\ script = "app" /\ pc = "except"
    /\ out' = Append(out, Line("Error: ", caught))
    /\ pc' = "error_screenshot"
    /\ UNCHANGED <<script, openSessions, closeCalls, listeners, files, log,
                   caught, raised, content, clock, consoleCount>>

AppErrorScreenshot ==
    /\ script = "app" /\ pc = "error_screenshot"
    /\ \E evs \in Arrivals :
       /\ out' = out \o Deliver(evs)
       /\ consoleCount' = consoleCount + Len(evs)
    /\ \/ /\ Call("error_screenshot", TRUE)
          /\ files' = files \cup {AppErrorShot}
       \/ /\ Call("error_screenshot", FALSE)
          /\ UNCHANGED files
    /\ pc' = "close"
    /\ UNCHANGED <<script, openSessions, closeCalls, listeners, caught, raised,
                   content, clock>>

\* a close() that raises may or may not have ended the browser
AppClose ==
    /\ script = "app" /\ pc = "close"
    /\ closeCalls' = closeCalls + 1
    /\ \E evs \in Arrivals :
       /\ out' = out \o Deliver(evs)
       /\ consoleCount' = consoleCount + Len(evs)
    /\ \/ /\ Call("close", TRUE)
          /\ openSessions' = openSessions - 1
          /\ UNCHANGED raised
       \/ \E m \in Msgs :
          /\ Call("close", FALSE)
          /\ openSessions' \in {openSessions, openSessions - 1}
          /\ raised' = <<"close", m>>
    /\ pc' = "exit"
    /\ UNCHANGED <<script, listeners, files, caught, content, clock>>

\* leaving "with sync_playwright() as p"; run() makes no browser call here
AppExit ==
    /\ script = "app" /\ pc = "exit"
    /\ pc' = "done"
    /\ UNCHANGED <<script, openSessions, closeCalls, listeners, out, files,
                   log, caught, raised, content, clock, consoleCount>>

AppNext ==
    \/ AppLaunch \/ AppNewPage \/ AppOnConsole \/ AppOnPageError
    \/ AppGoto \/ AppWaitForSelector \/ AppWaitForTimeout \/ AppScreenshot
    \/ AppExcept \/ AppErrorScreenshot \/ AppClose \/ AppExit

----------------------------------------------------------------------------
(* verify_fix.py *)

FixLaunch ==
    /\ script = "fix" /\ pc = "launch"
    /\ \/ /\ Call("launch", TRUE)
          /\ openSessions' = openSessions + 1
          /\ pc' = "new_page"
          /\ UNCHANGED raised
       \/ \E m \in Msgs :
          /\ Call("launch", FALSE)
          /\ raised' = <<"launch", m>>
          /\ pc' = "exit"
          /\ UNCHANGED openSessions
    /\ UNCHANGED <<script, closeCalls, listeners, out, files, caught, content,
                   clock, consoleCount>>

FixNewPage ==
    /\ script = "fix" /\ pc = "new_page"
    /\ \/ /\ Call("new_page", TRUE)
          /\ pc' = "goto"
          /\ UNCHANGED raised
       \/ \E m \in Msgs :
          /\ Call("new_page", FALSE)
          /\ raised' = <<"new_page", m>>
          /\ pc' = "exit"
    /\ UNCHANGED <<script, openSessions, closeCalls, listeners, out, files,
                   caught, content, clock, consoleCount>>

\* FixGoto followed by the settle delay at once
FixGotoSkipsWait ==
    /\ script = "fix" /\ pc = "goto"
    /\ out' = Append(out, Line("Navigating to ", <<URL>>))
    /\ \/ /\ Call("goto", TRUE)
          /\ pc' = "wait_for_timeout"
          /\ UNCHANGED caught
       \/ \E m \in Msgs :
          /\ Call("goto", FALSE)
          /\ caught' = m
          /\ pc' = "except"
    /\ UNCHANGED <<script, openSessions, closeCalls, listeners, files, raised,
                   content, clock, consoleCount>>

FixGoto ==
    /\ script = "fix" /\ pc = "goto"
    /\ out' = Append(out, Line("Navigating to ", <<URL>>))
    /\ \/ /\ Call("goto", TRUE)
          /\ pc' = "wait_for_selector"
          /\ UNCHANGED caught
       \/ \E m \in Msgs :
          /\ Call("goto", FALSE)
          /\ caught' = m
          /\ pc' = "except"
    /\ UNCHANGED <<script, openSessions, closeCalls, listeners, files, raised,
                   content, clock, consoleCount>>

\* FixWaitForSelector going on after a timeout
FixWaitForSelectorContinues ==
    /\ script = "fix" /\ pc = "wait_for_selector"
    /\ out' = Append(out, Line("Waiting for editor to load...", <<>>))
    /\ \/ \E k \in 0..MaxTicks :
          /\ k * SettleDelay <= WaitTimeout
          /\ Call("wait_for_selector", TRUE)
          /\ clock' = clock + k * SettleDelay
          /\ pc' = "wait_for_timeout"
          /\ UNCHANGED caught
       \/ \E k \in 0..MaxTicks :
          /\ k * SettleDelay >= WaitTimeout
          /\ Call("wait_for_selector", FALSE)
          /\ clock' = clock + WaitTimeout
          /\ pc' = "wait_for_timeout"
          /\ UNCHANGED caught
       \/ \E m \in Msgs :
          /\ Call("wait_for_selector", FALSE)
          /\ caught' = m
          /\ pc' = "except"
          /\ UNCHANGED clock
    /\ UNCHANGED <<script, openSessions, closeCalls, listeners, files, raised,
                   content, consoleCount>>

FixWaitForSelector ==
    /\ script = "fix" /\ pc = "wait_for_selector"
    /\ out' = Append(out, Line("Waiting for editor to load...", <<>>))
    /\ \/ \E k \in 0..MaxTicks :
          /\ k * SettleDelay <= WaitTimeout
          /\ Call("wait_for_selector", TRUE)
          /\ clock' = clock + k * SettleDelay
          /\ pc' = "wait_for_timeout"
          /\ UNCHANGED caught
       \/ \E k \in 0..MaxTicks :
          /\ k * SettleDelay >= WaitTimeout
          /\ Call("wait_for_selector", FALSE)
          /\ clock' = clock + WaitTimeout
          /\ caught' = TimeoutMsg
          /\ pc' = "except"
       \/ \E m \in Msgs :
          /\ Call("wait_for_selector", FALSE)
          /\ caught' = m
          /\ pc' = "except"
          /\ UNCHANGED clock
    /\ UNCHANGED <<script, openSessions, closeCalls, listeners, files, raised,
                   content, consoleCount>>

FixWaitForTimeout ==
    /\ script = "fix" /\ pc = "wait_for_timeout"
    /\ \/ /\ Call("wait_for_timeout", TRUE)
          /\ clock' = clock + SettleDelay
          /\ pc' = "content"
          /\ UNCHANGED caught
       \/ \E m \in Msgs :
          /\ Call("wait_for_timeout", FALSE)
          /\ caught' = m
          /\ pc' = "except"
          /\ UNCHANGED clock
    /\ UNCHANGED <<script, openSessions, closeCalls, listeners, out, files,
                   raised, content, consoleCount>>

\* the line printed by one "if needle in content: ... else: ..."
Outcome(name, needle, page) ==
    IF Contains(page, needle)
    THEN Line("SUCCESS: ", <<name, " found in the page content.">>)
    ELSE Line("FAILURE: ", <<name, " NOT found in the page content.">>)

\* content = page.content() and the two checks that follow it
FixContent ==
    /\ script = "fix" /\ pc = "content"
    /\ \/ \E page \in Pages :
          /\ Call("content", TRUE)
          /\ content' = page
          /\ out' = out \o <<Outcome("classDiagram", classDiagram, page),
                             Outcome("Animal", Animal, page)>>
          /\ pc' = "screenshot"
          /\ UNCHANGED caught
       \/ \E m \in Msgs :
          /\ Call("content", FALSE)
          /\ caught' = m
          /\ pc' = "except"
          /\ UNCHANGED <<content, out>>
    /\ UNCHANGED <<script, openSessions, closeCalls, listeners, files, raised,
                   clock, consoleCount>>

\* FixScreenshot with its exception swallowed
FixScreenshotSwallowed ==
    /\ script = "fix" /\ pc = "screenshot"
    /\ \/ /\ Call("screenshot", TRUE)
          /\ files' = files \cup {FixMainShot}
          /\ out' = out \o <<Line("Taking screenshot...", <<>>),
                             Line("Screenshot saved to ", <<FixMainShot>>)>>
          /\ pc' = "close"
          /\ UNCHANGED caught
       \/ \E m \in Msgs :
          /\ Call("screenshot", FALSE)
          /\ out' = Append(out, Line("Taking screenshot...", <<>>))
          /\ pc' = "close"
          /\ UNCHANGED caught
          /\ UNCHANGED files
    /\ UNCHANGED <<script, openSessions, closeCalls, listeners, raised,
                   content, clock, consoleCount>>

FixScreenshot ==
    /\ script = "fix" /\ pc = "screenshot"
    /\ \/ /\ Call("screenshot", TRUE)
          /\ files' = files \cup {FixMainShot}
          /\ out' = out \o <<Line("Taking screenshot...", <<>>),
                             Line("Screenshot saved to ", <<FixMainShot>>)>>
          /\ pc' = "close"
          /\ UNCHANGED caught
       \/ \E m \in Msgs :
          /\ Call("screenshot", FALSE)
          /\ out' = Append(out, Line("Taking screenshot...", <<>>))
          /\ caught' = m
          /\ pc' = "except"
          /\ UNCHANGED files
    /\ UNCHANGED <<script, openSessions, closeCalls, listeners, raised,
                   content, clock, consoleCount>>

FixExcept ==
    /\ script = "fix" /\ pc = "except"
    /\ out' = Append(out, Line("Error: ", caught))
    /\ pc' = "close"
    /\ UNCHANGED <<script, openSessions, closeCalls, listeners, files, log,
                   caught, raised, content, clock, consoleCount>>

FixClose ==
    /\ script = "fix" /\ pc = "close"
    /\ closeCalls' = closeCalls + 1
    /\ \/ /\ Call("close", TRUE)
          /\ openSessions' = openSessions - 1
          /\ UNCHANGED raised
       \/ \E m \in Msgs :
          /\ Call("close", FALSE)
          /\ openSessions' \in {openSessions, openSessions - 1}
          /\ raised' = <<"close", m>>
    /\ pc' = "exit"
    /\ UNCHANGED <<script, listeners, out, files, caught, content, clock,
                   consoleCount>>

FixExit ==
    /\ script = "fix" /\ pc = "exit"
    /\ pc' = "done"
    /\ UNCHANGED <<script, openSessions, closeCalls, listeners, out, files,
                   log, caught, raised, content, clock, consoleCount>>

FixNext ==
    \/ FixLaunch \/ FixNewPage \/ FixGoto \/ FixWaitForSelector
    \/ FixWaitForTimeout \/ FixContent \/ FixScreenshot \/ FixExcept
    \/ FixClose \/ FixExit

Next == AppNext \/ FixNext

Spec == Init /\ [][Next]_vars

----------------------------------------------------------------------------
(* Vocabulary of the properties *)

Did(op) == \E i \in 1..Len(log) : log[i][1] = op
Returned(op) == \E i \in 1..Len(log) : log[i] = <<op, TRUE>>
Raised(op) == \E i \in 1..Len(log) : log[i] = <<op, FALSE>>
Count(op) == Cardinality({i \in 1..Len(log) : log[i][1] = op})

Done == pc = "done"

\* the calls inside the try block
TrySteps == {"goto", "wait_for_selector", "wait_for_timeout", "content",
             "screenshot"}
\* navigation, readiness wait, settle delay, content inspection
CheckSteps == TrySteps \ {"screenshot"}

ErrorLines == SelectSeq(out, LAMBDA l : l[1] = "Error: ")
OutcomeLines == SelectSeq(out, LAMBDA l : l[1] \in {"SUCCESS: ", "FAILURE: "})
SavedLines == SelectSeq(out, LAMBDA l : l[1] = "Screenshot saved to ")

MainShot == IF script = "app" THEN AppMainShot ELSE FixMainShot

\* the calls made after the first call that raised inside the try block
AfterRaise ==
    LET idx == {i \in 1..Len(log) : log[i][1] \in TrySteps /\ ~log[i][2]}
    IN  IF idx = {} THEN <<>>
        ELSE LET i == CHOOSE k \in idx : \A l \in idx : k <= l
             IN  [j \in 1..(Len(log) - i) |-> log[i + j][1]]

\* needle occurs literally in text: text = before \o needle \o after
Occurs(needle, text) ==
    \E a, b \in 0..Len(text) :
        /\ a + Len(needle) + b = Len(text)
        /\ \A k \in 1..Len(needle) : text[a + k] = needle[k]

----------------------------------------------------------------------------
(* C1: in both scripts, a run whose launch succeeded has called            *)
(* browser.close() exactly once when it ends, whichever later step raised; *)
(* and never more than one session is open.                                *)
C1_ClosedExactlyOnce ==
    /\ openSessions <= 1
    /\ (Done /\ Returned("launch")) => closeCalls = 1

(* C2 as stated: in both scripts, once navigation, the readiness wait, the *)
(* settle delay or content inspection has raised, the Error line is        *)
(* printed, then exactly one error screenshot is attempted, then the       *)
(* session is closed.                                                      *)
C2_ErrorShotInBothScripts ==
    (\E s \in CheckSteps : Raised(s)) =>
        /\ (Did("error_screenshot") \/ Did("close")) =>
               ErrorLines = <<Line("Error: ", caught)>>
        /\ Did("close") => AfterRaise = <<"error_screenshot", "close">>

(* C2 amended: once one of those steps has raised, the run prints the      *)
(* Error line with the message of that exception; verify_app then attempts *)
(* exactly one error screenshot and then closes the session; verify_fix    *)
(* closes the session with no screenshot attempt.                          *)
C2_ErrorShotInAppOnly ==
    (\E s \in CheckSteps : Raised(s)) =>
        /\ (Did("error_screenshot") \/ Did("close")) =>
               ErrorLines = <<Line("Error: ", caught)>>
        /\ Did("close") =>
               AfterRaise = IF script = "app"
                            THEN <<"error_screenshot", "close">>
                            ELSE <<"close">>

C2_Witness ==
    /\ Done /\ script = "app"
    /\ Raised("wait_for_selector")
    /\ caught = TimeoutMsg
    /\ Did("error_screenshot")
    /\ closeCalls = 1

(* C3: in verify_app, when a step of the try block has raised and the      *)
(* error screenshot raises too, the Error line of the first exception is   *)
(* the only one printed, the session is closed and run() returns without   *)
(* raising.                                                                *)
C3_ShotFailureSuppressed ==
    (Done /\ script = "app" /\ Raised("error_screenshot")) =>
        /\ ErrorLines = <<Line("Error: ", caught)>>
        /\ closeCalls = 1
        /\ openSessions = 0
        /\ raised = NoExc

(* C4 as stated: a failure of the full-page screenshot is swallowed, the   *)
(* run reports no error because of it and the lines printed before it are  *)
(* the whole verdict.                                                      *)
C4_MainShotFailureSilent ==
    (Done /\ Raised("screenshot")) =>
        /\ ErrorLines = <<>>
        /\ script = "fix" => Len(OutcomeLines) = 2

(* C4 amended: a failure of the full-page screenshot is handled like that  *)
(* of any other step of the try block: the run prints one Error line with  *)
(* its message; the outcome lines printed before it stay as they were and  *)
(* no "Screenshot saved to" line is printed.                               *)
C4_MainShotFailureReported ==
    (Done /\ Raised("screenshot")) =>
        /\ ErrorLines = <<Line("Error: ", caught)>>
        /\ script = "fix" => Len(OutcomeLines) = 2
        /\ \A i, j \in 1..Len(out) :
               (/\ out[i][1] = "Error: "
                /\ out[j][1] \in {"SUCCESS: ", "FAILURE: "}) => j < i
        /\ SavedLines = <<>>

C4_Witness ==
    /\ Done /\ script = "fix" /\ Raised("screenshot")
    /\ Len(OutcomeLines) = 2
    /\ Len(ErrorLines) = 1

(* C5: in verify_fix, once page.content() has returned, exactly two        *)
(* outcome lines are printed, the first for classDiagram and the second    *)
(* for Animal; each is a SUCCESS line iff its substring occurs literally   *)
(* in the content, whatever the other one is.                              *)
C5_TwoIndependentOutcomes ==
    (script = "fix" /\ Returned("content")) =>
        /\ Len(OutcomeLines) = 2
        /\ OutcomeLines[1][2][1] = "classDiagram"
        /\ OutcomeLines[2][2][1] = "Animal"
        /\ OutcomeLines[1][1] = "SUCCESS: " <=> Occurs(classDiagram, content)
        /\ OutcomeLines[2][1] = "SUCCESS: " <=> Occurs(Animal, content)

C5_Witness ==
    /\ script = "fix" /\ Returned("content")
    /\ content = <<"c","l","a","s","s">> \o Animal
    /\ OutcomeLines[1][1] = "FAILURE: "
    /\ OutcomeLines[2][1] = "SUCCESS: "

(* C6: the calls of a run are made in the order launch, navigate, wait for *)
(* readiness, settle delay, inspect, screenshot, close: none is made       *)
(* twice, a step other than close is made only after every earlier step    *)
(* of the script has returned, and no browser call follows close.          *)
Rank(op) ==
    CASE op = "launch" -> 1
      [] op = "new_page" -> 2
      [] op = "on" -> 3
      [] op = "goto" -> 4
      [] op = "wait_for_selector" -> 5
      [] op = "wait_for_timeout" -> 6
      [] op = "content" -> 7
      [] op = "screenshot" -> 8
      [] op = "error_screenshot" -> 9
      [] op = "close" -> 10

Sequence == {"launch", "goto", "wait_for_selector", "wait_for_timeout",
             "content", "screenshot", "close"}
StepsOf(s) == IF s = "app" THEN Sequence \ {"content"} ELSE Sequence

C6_StrictOrder ==
    /\ \A i, j \in 1..Len(log) :
           (i < j /\ log[i][1] \in Sequence /\ log[j][1] \in Sequence) =>
               Rank(log[i][1]) < Rank(log[j][1])
    /\ \A j \in 1..Len(log) :
           log[j][1] \in Sequence \ {"launch", "close"} =>
               \A s \in StepsOf(script) :
                   Rank(s) < Rank(log[j][1]) =>
                       \E i \in 1..(j - 1) : log[i] = <<s, TRUE>>
    /\ \A j \in 1..Len(log) :
           log[j][1] = "close" =>
               /\ j = Len(log)
               /\ log[1] = <<"launch", TRUE>>

C6_Witness ==
    /\ Done /\ script = "fix"
    /\ [i \in 1..Len(log) |-> log[i][1]] =
           <<"launch", "new_page", "goto", "wait_for_selector",
             "wait_for_timeout", "content", "screenshot", "close">>

(* C7: in both scripts only a failure of the launch leaves run(); the      *)
(* failure of any other step is caught inside run().                       *)
C7_OnlyLaunchPropagates ==
    (Done /\ raised # NoExc) => raised[1] = "launch"

(* C8: in both scripts, a run in which navigation and the readiness wait   *)
(* returned and no call raised has written its full-page screenshot file,  *)
(* printed the "Screenshot saved to" line for it, printed no Error line    *)
(* and closed the session.                                                 *)
C8_SuccessRun ==
    (/\ Done
     /\ Returned("goto") /\ Returned("wait_for_selector")
     /\ \A i \in 1..Len(log) : log[i][2]) =>
        /\ files = {MainShot}
        /\ SavedLines = <<Line("Screenshot saved to ", <<MainShot>>)>>
        /\ ErrorLines = <<>>
        /\ closeCalls = 1
        /\ openSessions = 0
        /\ log[Len(log)] = <<"close", TRUE>>

C8_Witness ==
    /\ Done /\ script = "app"
    /\ \A i \in 1..Len(log) : log[i][2]
    /\ files = {AppMainShot}
    /\ clock = WaitTimeout + SettleDelay

(* C9: once a call of the try block has raised, no later step of the       *)
(* pipeline is made in that run (only the error screenshot and close may   *)
(* follow); outcome lines are printed only after page.content() returned   *)
(* and the "Screenshot saved to" line only after the full-page screenshot  *)
(* returned.                                                               *)
C9_NothingAfterRaise ==
    /\ \A i \in 1..Len(AfterRaise) :
           AfterRaise[i] \in {"error_screenshot", "close"}
    /\ OutcomeLines # <<>> =>
           /\ Returned("content")
           /\ ~Raised("goto") /\ ~Raised("wait_for_selector")
           /\ ~Raised("wait_for_timeout")
    /\ SavedLines # <<>> =>
           /\ Returned("screenshot")
           /\ \A s \in TrySteps : ~Raised(s)

C9_Witness ==
    /\ Done /\ script = "fix"
    /\ Raised("wait_for_selector")
    /\ caught = TimeoutMsg
    /\ AfterRaise = <<"close">>
    /\ OutcomeLines = <<>>

(* C10: in verify_app the error screenshot is attempted only in runs where *)
(* a call of the try block raised and verification_debug.png is written    *)
(* only in runs where none did; no run writes both files and no run makes  *)
(* more than two screenshot calls.                                         *)
C10_OneScreenshotFile ==
    script = "app" =>
        /\ Did("error_screenshot") => \E s \in TrySteps : Raised(s)
        /\ AppMainShot \in files => \A s \in TrySteps : ~Raised(s)
        /\ Cardinality(files) <= 1
        /\ Count("screenshot") + Count("error_screenshot") <= 2

C10_Witness ==
    /\ Done /\ script = "app"
    /\ Raised("screenshot")
    /\ Returned("error_screenshot")
    /\ files = {AppErrorShot}

====
